---- MODULE Spec2Model ----
(***************************************************************************)
(* A model of state.GetNew (src/pod/main.go:105-513), the bootstrap and    *)
(* transport-composition pipeline of the pod node, and of GetFreePort      *)
(* (src/pod/main.go:515-533).                                              *)
(*                                                                         *)
(* One run of GetNew is a walk of the variable pc through the stages of    *)
(* the function, in source order.  The configuration is the record cfg,    *)
(* the three TLS files and the configuration file are the variable fs,     *)
(* and the results of the run (active network, dial, lookup, onion dial,   *)
(* the save flag, the returned error) are variables of their own.  A       *)
(* finished run may be followed by another one on the same file system     *)
(* (the node is started again), up to MaxRuns runs.                        *)
(***************************************************************************)
EXTENDS Integers, Sequences, FiniteSets, TLC

VARIABLES
    pc,         \* the stage of GetNew the run is at, or "done"
    outcome,    \* "running", "returned", "exit0", "exit1" or "panic"
    e,          \* the named result e of GetNew: "nil" or the error's name
    cfg,        \* s.Config: the configuration being elaborated
    cfg0,       \* the configuration as handed to the run (after Initialize)
    fs,         \* the disk: cert, key, ca, conf -> [state, gen]
    fs0,        \* the disk as it was when the run started
    activeNet,  \* s.ActiveNet.Name, "" before the network is selected
    isTestnet,  \* fork.IsTestnet
    save,       \* s.StateCfg.Save
    dial,       \* s.StateCfg.Dial
    lookup,     \* s.StateCfg.Lookup
    oniondial,  \* s.StateCfg.Oniondial
    tls,        \* what the TLS provisioner did in this run
    confWrites, \* number of times this run wrote the configuration file
    run         \* number of the run, 1..MaxRuns

vars == <<pc, outcome, e, cfg, cfg0, fs, fs0, activeNet, isTestnet, save,
          dial, lookup, oniondial, tls, confWrites, run>>

\* How many times in a row the node is started on the same disk.
MaxRuns == 2

----------------------------------------------------------------------------
(* Strings that the code parses are sequences of one-character strings.    *)

Max(S) == CHOOSE x \in S : \A y \in S : y <= x
Min(S) == CHOOSE x \in S : \A y \in S : x <= y

\* strings.IndexByte / strings.LastIndexByte, 1-based, 0 when absent
IndexByte(s, c) ==
    LET I == {i \in 1..Len(s) : s[i] = c} IN IF I = {} THEN 0 ELSE Min(I)
LastIndexByte(s, c) ==
    LET I == {i \in 1..Len(s) : s[i] = c} IN IF I = {} THEN 0 ELSE Max(I)

\* s[from:] of Go for a 1-based first index
Tail1(s, from) == SubSeq(s, from, Len(s))

\* net.SplitHostPort: [ok, host, port]
SplitHostPort(hp) ==
    LET i    == LastIndexByte(hp, ":")
        fail == [ok |-> FALSE, host |-> <<>>, port |-> <<>>]
    IN  IF i = 0 THEN fail
        ELSE IF hp[1] = "["
        THEN LET end == IndexByte(hp, "]") IN
             IF end = 0 THEN fail
             ELSE IF end + 1 # i THEN fail
             ELSE IF IndexByte(Tail1(hp, 2), "[") # 0 THEN fail
             ELSE IF IndexByte(Tail1(hp, end + 1), "]") # 0 THEN fail
             ELSE [ok |-> TRUE, host |-> SubSeq(hp, 2, end - 1),
                   port |-> Tail1(hp, i + 1)]
        ELSE LET host == SubSeq(hp, 1, i - 1) IN
             IF IndexByte(host, ":") # 0 THEN fail
             ELSE IF IndexByte(hp, "[") # 0 THEN fail
             ELSE IF IndexByte(hp, "]") # 0 THEN fail
             ELSE [ok |-> TRUE, host |-> host, port |-> Tail1(hp, i + 1)]

\* net.JoinHostPort
JoinHostPort(host, port) ==
    IF IndexByte(host, ":") # 0 \/ IndexByte(host, "%") # 0
    THEN <<"[">> \o host \o <<"]", ":">> \o port
    ELSE host \o <<":">> \o port

\* strings.ContainsAny(s, chars)
ContainsAny(s, chars) == \E i \in 1..Len(s) : s[i] \in chars

\* strconv.Atoi on the profile strings of the model: [ok, n]
Digit(c) == CASE c = "0" -> 0 [] c = "1" -> 1 [] c = "2" -> 2 [] c = "3" -> 3
              [] c = "4" -> 4 [] c = "5" -> 5 [] c = "6" -> 6 [] c = "7" -> 7
              [] c = "8" -> 8 [] c = "9" -> 9 [] OTHER -> -1
RECURSIVE DigitsValue(_)
DigitsValue(s) ==
    IF s = <<>> THEN 0 ELSE 10 * DigitsValue(SubSeq(s, 1, Len(s) - 1)) + Digit(s[Len(s)])
Atoi(s) ==
    IF s # <<>> /\ \A i \in 1..Len(s) : Digit(s[i]) >= 0
    THEN [ok |-> TRUE, n |-> DigitsValue(s)]
    ELSE [ok |-> FALSE, n |-> 0]

\* fmt.Sprint of a non-negative int
DigitChar(d) == CASE d = 0 -> "0" [] d = 1 -> "1" [] d = 2 -> "2" [] d = 3 -> "3"
                  [] d = 4 -> "4" [] d = 5 -> "5" [] d = 6 -> "6" [] d = 7 -> "7"
                  [] d = 8 -> "8" [] d = 9 -> "9"
RECURSIVE Sprint(_)
Sprint(n) == IF n < 10 THEN <<DigitChar(n)>> ELSE Sprint(n \div 10) \o <<DigitChar(n % 10)>>

----------------------------------------------------------------------------
(* The inputs of the model.                                                *)

Empty  == <<>>
\* a SOCKS proxy for ordinary traffic, a Tor proxy, an address without a port
ProxyA == <<"1", "0", ".", "1", ":", "1", "0", "8", "0">>
OnionA == <<"1", "2", "7", ".", "1", ":", "9", "0", "5", "0">>
BadA   == <<"l", "o", "c", "a", "l">>
\* listener addresses
ListenA == <<"0", ".", "0", ":", "1", "1">>
ListenB == <<"[", ":", ":", "1", "]", ":", "2", "2">>
\* what routeable.GetAddressesAndInterfaces finds, and what the kernel hands out
RoutableHosts == {<<"1", "0", ".", "2">>, <<"1", "0", ".", "3">>}
FreePorts     == {40001, 40002}

NetworkTokens == {"mainnet", "m", "testnet", "testnet3", "t", "regtestnet",
                  "regressiontest", "r", "simnet", "s", "", "bogus"}

\* the files GetNew touches: s.Config.RPCCert, RPCKey, CAFile and ConfigFile
TLSFiles == {"cert", "key", "ca"}
Files    == TLSFiles \cup {"conf"}

Absent        == [state |-> "absent",  gen |-> 0]
Full(g)       == [state |-> "full",    gen |-> g]
Partial(g)    == [state |-> "partial", gen |-> g]

\* A configuration with nothing special in it: mainnet, no TLS, no proxy.
BaseConfig ==
    [ Network |-> "mainnet", LAN |-> FALSE, Solo |-> FALSE,
      LogDir |-> "logs", DataDir |-> "data",
      ClientTLS |-> FALSE, ServerTLS |-> FALSE, OneTimeTLSKey |-> FALSE,
      Profile |-> <<>>,
      AddPeers |-> <<>>, ConnectPeers |-> <<>>,
      P2PListeners |-> <<ListenA>>, P2PConnect |-> <<>>,
      RPCListeners |-> <<ListenA>>, WalletRPCListeners |-> <<ListenA>>,
      DisableListen |-> FALSE, DisableDNSSeed |-> FALSE, DisableRPC |-> FALSE,
      RelayNonStd |-> FALSE, RejectNonStd |-> FALSE,
      Username |-> "admin", Password |-> "apass",
      LimitUser |-> "limit", LimitPass |-> "lpass",
      UserAgentComments |-> <<>>,
      MinRelayTxFee |-> "0.0001",
      AutoListen |-> FALSE, AutoPorts |-> FALSE,
      RPCMaxConcurrentReqs |-> 20,
      ProxyAddress |-> Empty, ProxyUser |-> "", ProxyPass |-> "",
      OnionProxyAddress |-> Empty, OnionProxyUser |-> "", OnionProxyPass |-> "",
      TorIsolation |-> FALSE, OnionEnabled |-> TRUE,
      RunningCommand |-> "node" ]

\* Configurations that differ from BaseConfig in the TLS flags.
TLSConfigs ==
    { [BaseConfig EXCEPT !.ClientTLS = c, !.ServerTLS = s, !.OneTimeTLSKey = o] :
        c \in BOOLEAN, s \in BOOLEAN, o \in BOOLEAN }

\* Configurations that differ from BaseConfig in the transport settings.
TransportConfigs ==
    { [BaseConfig EXCEPT !.ProxyAddress = p, !.OnionProxyAddress = o,
                         !.OnionEnabled = en, !.TorIsolation = iso,
                         !.ProxyUser = pu[1], !.ProxyPass = pu[2],
                         !.OnionProxyUser = ou[1], !.OnionProxyPass = ou[2],
                         !.RunningCommand = cmd] :
        p   \in {Empty, BadA, ProxyA},
        o   \in {Empty, BadA, ProxyA, OnionA},
        en  \in BOOLEAN, iso \in BOOLEAN,
        pu  \in {<<"", "">>, <<"puser", "ppass">>},
        ou  \in {<<"", "">>, <<"ouser", "opass">>},
        cmd \in {"node", "kopach"} }

\* Configurations that differ from BaseConfig in one of the validated settings.
ValidatedConfigs ==
    { [BaseConfig EXCEPT !.Network = n, !.LAN = l, !.Solo = so] :
        n \in NetworkTokens, l \in BOOLEAN, so \in BOOLEAN }
    \cup { [BaseConfig EXCEPT !.LogDir = "data"] }
    \cup { [BaseConfig EXCEPT !.Profile = p] :
             p \in {<<"6", "0", "6", "0">>, <<"8", "0">>, <<"7", "0", "0", "0", "0">>, <<"x">>} }
    \cup { [BaseConfig EXCEPT !.AddPeers = a, !.ConnectPeers = c, !.P2PListeners = l] :
             a \in {<<>>, <<ProxyA>>}, c \in {<<>>, <<OnionA>>}, l \in {<<>>, <<ListenA>>} }
    \cup { [BaseConfig EXCEPT !.RelayNonStd = a, !.RejectNonStd = b] :
             a \in BOOLEAN, b \in BOOLEAN }
    \cup { [BaseConfig EXCEPT !.Username = u, !.Password = p,
                              !.LimitUser = lu, !.LimitPass = lp] :
             u \in {"", "admin"}, p \in {"", "apass"},
             lu \in {"", "admin", "limit"}, lp \in {"", "apass", "lpass"} }
    \cup { [BaseConfig EXCEPT !.UserAgentComments = c] :
             c \in {<<<<"p", "o", "d">>>>, <<<<"p", "o", "d">>, <<"a", "/", "b">>>>} }
    \cup { [BaseConfig EXCEPT !.MinRelayTxFee = f] : f \in {"NaN"} }
    \cup { [BaseConfig EXCEPT !.RPCMaxConcurrentReqs = n] : n \in {-1, 0} }
    \cup { [BaseConfig EXCEPT !.AutoListen = al, !.AutoPorts = ap,
                              !.P2PListeners = l, !.Network = n] :
             al \in BOOLEAN, ap \in BOOLEAN,
             l \in {<<ListenA>>, <<ListenA, ListenB>>, <<BadA>>},
             n \in {"mainnet", "testnet"} }

\* Configurations in which several settings differ from BaseConfig at once:
\* equal credentials together with what an earlier step refuses or what a
\* later step would do, and the port allocator together with the subcommand.
CombinedConfigs ==
    { [BaseConfig EXCEPT !.LimitUser = lu, !.LimitPass = lp,
                         !.RelayNonStd = r, !.RejectNonStd = r,
                         !.LAN = l, !.Network = n, !.ClientTLS = t,
                         !.AutoPorts = ap, !.ProxyAddress = p] :
        lu \in {"admin", "limit"}, lp \in {"apass", "lpass"},
        r \in BOOLEAN, l \in BOOLEAN, n \in {"mainnet", "testnet"},
        t \in BOOLEAN, ap \in BOOLEAN, p \in {Empty, ProxyA} }
    \cup { [BaseConfig EXCEPT !.AutoListen = al, !.AutoPorts = ap,
                              !.RunningCommand = cmd, !.Network = n] :
             al \in BOOLEAN, ap \in BOOLEAN, cmd \in {"node", "kopach"},
             n \in {"mainnet", "simnet"} }
    \cup { [BaseConfig EXCEPT !.LogDir = "data", !.ProxyAddress = ProxyA,
                              !.OnionProxyAddress = o, !.OnionEnabled = en] :
             o \in {Empty, OnionA}, en \in BOOLEAN }

Configs == TLSConfigs \cup TransportConfigs \cup ValidatedConfigs \cup CombinedConfigs

\* The disks a first run can find: each of the four files is there or not.
Disks == { [f \in Files |-> IF f \in present THEN Full(0) ELSE Absent] :
             present \in SUBSET Files }

----------------------------------------------------------------------------
(* The file system.                                                        *)

\* apputil.FileExists
FileExists(d, f) == d[f].state # "absent"

\* ioutil.WriteFile(f, ...) by run g.  It opens the file with O_CREATE and
\* O_TRUNC and then writes: it succeeds ("ok"), fails before the file is
\* opened ("noopen": the disk is as before) or fails after it ("short": a
\* created or truncated file is left behind).
WriteOutcomes == {"ok", "noopen", "short"}
WriteFile(d, f, g, how) ==
    CASE how = "ok"     -> [d EXCEPT ![f] = Full(g)]
      [] how = "noopen" -> d
      [] how = "short"  -> [d EXCEPT ![f] = Partial(g)]

\* os.Remove(f): removes the file when the system lets it (works); the
\* error of a failed removal is only logged by GetNew.
Remove(d, f, works) ==
    IF FileExists(d, f) /\ works THEN [d EXCEPT ![f] = Absent] ELSE d

----------------------------------------------------------------------------
(* The transport functions GetNew can install.  A function is named by the *)
(* place that makes it; addr, user, pass and iso are what a socks.Proxy    *)
(* value built at that place captured.  The closures of lines 468 and 484  *)
(* capture s.Config and read the address when called.                      *)

Fn(name, addr, user, pass, iso) ==
    [fn |-> name, addr |-> addr, user |-> user, pass |-> pass, iso |-> iso]
NoFn               == Fn("unset", Empty, "", "", FALSE)
NetDialTimeout     == Fn("net.DialTimeout", Empty, "", "", FALSE)
NetLookupIP        == Fn("net.LookupIP", Empty, "", "", FALSE)
ProxyDialTimeout(c, iso) ==
    Fn("proxy.DialTimeout", c.ProxyAddress, c.ProxyUser, c.ProxyPass, iso)
TorLookupViaProxy  == Fn("TorLookupIP(ProxyAddress)", Empty, "", "", FALSE)
TorLookupViaOnion  == Fn("TorLookupIP(OnionProxyAddress)", Empty, "", "", FALSE)
OnionProxyDial     == Fn("onionproxy.DialTimeout", Empty, "", "", FALSE)
TorDisabledDial    == Fn("tor has been disabled", Empty, "", "", FALSE)

\* The SOCKS proxy a call of f goes through when the configuration is c:
\* <<>> for a function that uses none ("none" for one that only fails).
ProxyUsedBy(f, c) ==
    CASE f.fn = "proxy.DialTimeout"             -> <<"socks", f.addr>>
      [] f.fn = "onionproxy.DialTimeout"        -> <<"socks", c.OnionProxyAddress>>
      [] f.fn = "TorLookupIP(ProxyAddress)"     -> <<"socks", c.ProxyAddress>>
      [] f.fn = "TorLookupIP(OnionProxyAddress)" -> <<"socks", c.OnionProxyAddress>>
      [] f.fn = "tor has been disabled"         -> <<"fails">>
      [] OTHER                                  -> <<"direct">>

----------------------------------------------------------------------------
(* The start of a run.                                                     *)

NoTLSWork == [mkdirs |-> 0, keygens |-> 0, wrote |-> {}, failedAt |-> "",
              removed |-> {}, rmFailed |-> FALSE]

\* The state GetNew starts in, for configuration c on disk d, as run r.
Start(c, d, r) ==
    /\ pc = "Initialize" /\ outcome = "running" /\ e = "nil"
    /\ cfg = c /\ cfg0 = c
    /\ fs = d /\ fs0 = d
    /\ activeNet = "" /\ isTestnet = FALSE /\ save = FALSE
    /\ dial = NoFn /\ lookup = NoFn /\ oniondial = NoFn
    /\ tls = NoTLSWork /\ confWrites = 0 /\ run = r

\* TLS configurations start on every disk; the others on a disk without TLS
\* files, with or without a configuration file.
Init ==
    \E c \in Configs, d \in Disks :
        /\ c \in TLSConfigs \/ \A f \in TLSFiles : ~FileExists(d, f)
        /\ Start(c, d, 1)

\* return with e = err
Return(err) == pc' = "done" /\ outcome' = "returned" /\ e' = err
\* os.Exit(code): the process ends, GetNew returns nothing
Exit(code)  == pc' = "done" /\ outcome' = code /\ e' = e

----------------------------------------------------------------------------
(* GetNew, lines 111-162.                                                  *)

\* config.Initialize(hf): cfg is the configuration it leaves; a failure panics
Initialize ==
    /\ pc = "Initialize"
    /\ \/ pc' = "SelectNetwork" /\ UNCHANGED outcome
       \/ pc' = "done" /\ outcome' = "panic"
    /\ UNCHANGED <<e, cfg, cfg0, fs, fs0, activeNet, isTestnet, save, dial,
                   lookup, oniondial, tls, confWrites, run>>

\* the switch of lines 131-148 without the one-letter aliases
NetworkName_NoShortTokens(token) ==
    CASE token \in {"testnet", "testnet3"}           -> "testnet"
      [] token \in {"regtestnet", "regressiontest"}  -> "regtest"
      [] token \in {"simnet"}                        -> "simnet"
      [] OTHER                                       -> "mainnet"

\* the switch on s.Config.Network.V(): the name of the selected ChainParams
NetworkName(token) ==
    CASE token \in {"testnet", "testnet3", "t"}           -> "testnet"
      [] token \in {"regtestnet", "regressiontest", "r"}  -> "regtest"
      [] token \in {"simnet", "s"}                        -> "simnet"
      [] OTHER                                            -> "mainnet"

\* fork.IsTestnet after the switch: every case but the default sets it
SetsIsTestnet(token) ==
    token \in {"testnet", "testnet3", "t", "regtestnet", "regressiontest", "r",
               "simnet", "s"}

SelectNetwork ==
    /\ pc = "SelectNetwork"
    /\ activeNet' = NetworkName(cfg.Network)
    /\ isTestnet' = (isTestnet \/ SetsIsTestnet(cfg.Network))
    /\ pc' = "LanSolo"
    /\ UNCHANGED <<outcome, e, cfg, cfg0, fs, fs0, save, dial, lookup,
                   oniondial, tls, confWrites, run>>

\* line 149 without the test of the network
LanSoloOnMainnet_AnyNet(c, net) == c.LAN \/ c.Solo

\* the guard of line 149
LanSoloOnMainnet(c, net) == (c.LAN \/ c.Solo) /\ net = "mainnet"

LanSolo ==
    /\ pc = "LanSolo"
    /\ IF LanSoloOnMainnet(cfg, activeNet)
       THEN Return("neither Solo or LAN can be active on mainnet")
       ELSE pc' = "LogDir" /\ UNCHANGED <<outcome, e>>
    /\ UNCHANGED <<cfg, cfg0, fs, fs0, activeNet, isTestnet, save, dial,
                   lookup, oniondial, tls, confWrites, run>>

\* lines 155-162: the pipe logger changes nothing the model holds; the log
\* directory moves under the network's name when it is the data directory
LogDir ==
    /\ pc = "LogDir"
    /\ cfg' = IF cfg.LogDir = cfg.DataDir
              THEN [cfg EXCEPT !.LogDir = cfg.DataDir \o "/" \o activeNet]
              ELSE cfg
    /\ pc' = "TLSCheck"
    /\ UNCHANGED <<outcome, e, cfg0, fs, fs0, activeNet, isTestnet, save, dial,
                   lookup, oniondial, tls, confWrites, run>>

----------------------------------------------------------------------------
(* GetNew, lines 163-230: the TLS provisioner.                             *)

\* lines 165-169 without the test of the CA file
NeedsProvisioning_NoCA(c, d) ==
    /\ c.ClientTLS \/ c.ServerTLS
    /\ \/ ~FileExists(d, "key") /\ ~c.OneTimeTLSKey
       \/ ~FileExists(d, "cert")

\* lines 165-169 with the files never looked at
NeedsProvisioning_Always(c, d) == c.ClientTLS \/ c.ServerTLS

\* the condition of lines 165-169, for configuration c on disk d
NeedsProvisioning(c, d) ==
    /\ c.ClientTLS \/ c.ServerTLS
    /\ \/ ~FileExists(d, "key") /\ ~c.OneTimeTLSKey
       \/ ~FileExists(d, "cert")
       \/ ~FileExists(d, "ca")

TLSCheck ==
    /\ pc = "TLSCheck"
    /\ pc' = IF NeedsProvisioning(cfg, fs) THEN "TLSMkdir" ELSE "Profile"
    /\ UNCHANGED <<outcome, e, cfg, cfg0, fs, fs0, activeNet, isTestnet, save,
                   dial, lookup, oniondial, tls, confWrites, run>>

\* lines 173-184: os.MkdirAll for the cert directory, then the key directory;
\* made is the number of calls that succeeded
TLSMkdir ==
    /\ pc = "TLSMkdir"
    /\ \E made \in 0..2 :
         /\ tls' = [tls EXCEPT !.mkdirs = made,
                               !.failedAt = IF made < 2 THEN "mkdir" ELSE @]
         /\ IF made < 2
            THEN Return("mkdir")
            ELSE pc' = "TLSGenerate" /\ UNCHANGED <<outcome, e>>
    /\ UNCHANGED <<cfg, cfg0, fs, fs0, activeNet, isTestnet, save, dial, lookup,
                   oniondial, confWrites, run>>

\* lines 186-198: util.NewTLSCertPair, then tls.X509KeyPair on its result
TLSGenerate ==
    /\ pc = "TLSGenerate"
    /\ \E how \in {"ok", "nopair", "badpair"} :
         /\ tls' = [tls EXCEPT !.keygens = IF how = "nopair" THEN @ ELSE @ + 1,
                               !.failedAt = IF how = "ok" THEN @ ELSE "generate"]
         /\ IF how = "ok"
            THEN pc' = "TLSWriteCert" /\ UNCHANGED <<outcome, e>>
            ELSE Return(how)
    /\ UNCHANGED <<cfg, cfg0, fs, fs0, activeNet, isTestnet, save, dial, lookup,
                   oniondial, confWrites, run>>

\* The files GetNew removes when writing f failed (lines 202, 210, 219-223).
RemovedAfterFailedWrite(f) ==
    CASE f = "cert" -> <<"cert">>
      [] f = "ca"   -> <<"cert">>
      [] f = "key"  -> <<"cert", "ca">>

\* the disk after os.Remove of each file of the sequence fsq, the i-th
\* removal working iff works[i]
RECURSIVE RemoveAll(_, _, _)
RemoveAll(d, fsq, works) ==
    IF fsq = <<>> THEN d
    ELSE RemoveAll(Remove(d, Head(fsq), Head(works)), Tail(fsq), Tail(works))

\* One ioutil.WriteFile of the provisioner and the handling of its error:
\* file f is written; on success the run goes on at next, on failure the
\* files of RemovedAfterFailedWrite(f) are removed and GetNew returns.
TLSWrite(f, next) ==
    \E how \in WriteOutcomes :
      LET written == WriteFile(fs, f, run, how)
          rm      == RemovedAfterFailedWrite(f)
      IN  IF how = "ok"
          THEN /\ fs' = written
               /\ tls' = [tls EXCEPT !.wrote = @ \cup {f}]
               /\ pc' = next
               /\ UNCHANGED <<outcome, e>>
          ELSE \E works \in [1..Len(rm) -> BOOLEAN] :
               /\ fs' = RemoveAll(written, rm, works)
               /\ tls' = [tls EXCEPT
                     !.failedAt = f,
                     !.removed  = {rm[i] : i \in {j \in 1..Len(rm) :
                                      works[j] /\ FileExists(written, rm[j])}},
                     !.rmFailed = \E i \in 1..Len(rm) :
                                      ~works[i] /\ FileExists(written, rm[i])]
               /\ Return("write " \o f)

TLSWriteCert ==
    /\ pc = "TLSWriteCert"
    /\ TLSWrite("cert", "TLSWriteCA")
    /\ UNCHANGED <<cfg, cfg0, fs0, activeNet, isTestnet, save, dial, lookup,
                   oniondial, confWrites, run>>

TLSWriteCA ==
    /\ pc = "TLSWriteCA"
    /\ TLSWrite("ca", "TLSWriteKey")
    /\ UNCHANGED <<cfg, cfg0, fs0, activeNet, isTestnet, save, dial, lookup,
                   oniondial, confWrites, run>>

TLSWriteKey ==
    /\ pc = "TLSWriteKey"
    /\ TLSWrite("key", "Profile")
    /\ UNCHANGED <<cfg, cfg0, fs0, activeNet, isTestnet, save, dial, lookup,
                   oniondial, confWrites, run>>

----------------------------------------------------------------------------
(* GetNew, lines 232-304: the early checks.                                *)

\* lines 234-244
BadProfile(c) ==
    /\ c.Profile # <<>>
    /\ LET a == Atoi(c.Profile) IN ~a.ok \/ a.n < 1024 \/ a.n > 65535

Profile ==
    /\ pc = "Profile"
    /\ IF BadProfile(cfg)
       THEN Return("the profile port must be between 1024 and 65535")
       ELSE pc' = "PeerLists" /\ UNCHANGED <<outcome, e>>
    /\ UNCHANGED <<cfg, cfg0, fs, fs0, activeNet, isTestnet, save, dial,
                   lookup, oniondial, tls, confWrites, run>>

\* lines 247-251
PeerLists ==
    /\ pc = "PeerLists"
    /\ IF Len(cfg.AddPeers) > 0 /\ Len(cfg.ConnectPeers) > 0
       THEN Return("the addpeers and connectpeers options can not be both set")
       ELSE pc' = "DisableListen" /\ UNCHANGED <<outcome, e>>
    /\ UNCHANGED <<cfg, cfg0, fs, fs0, activeNet, isTestnet, save, dial,
                   lookup, oniondial, tls, confWrites, run>>

\* lines 254-256
DisableListen ==
    /\ pc = "DisableListen"
    /\ cfg' = IF (cfg.ProxyAddress # Empty \/ Len(cfg.ConnectPeers) > 0)
                 /\ Len(cfg.P2PListeners) = 0
              THEN [cfg EXCEPT !.DisableListen = TRUE]
              ELSE cfg
    /\ pc' = "RelayPolicy"
    /\ UNCHANGED <<outcome, e, cfg0, fs, fs0, activeNet, isTestnet, save, dial,
                   lookup, oniondial, tls, confWrites, run>>

\* lines 259-265
RelayPolicy ==
    /\ pc = "RelayPolicy"
    /\ IF cfg.RelayNonStd /\ cfg.RejectNonStd
       THEN Return("rejectnonstd and relaynonstd cannot be used together")
       ELSE pc' = "UserCheck" /\ UNCHANGED <<outcome, e>>
    /\ UNCHANGED <<cfg, cfg0, fs, fs0, activeNet, isTestnet, save, dial,
                   lookup, oniondial, tls, confWrites, run>>

\* lines 277-278 comparing the password with the limited user name
SamePassword_VsLimitUser(c) == c.Password # "" /\ c.Password = c.LimitUser

\* lines 269-270 and 277-278
SameUsername(c) == c.Username # "" /\ c.Username = c.LimitUser
SamePassword(c) == c.Password # "" /\ c.Password = c.LimitPass

\* lines 267-274
UserCheck ==
    /\ pc = "UserCheck"
    /\ IF SameUsername(cfg)
       THEN Exit("exit1")
       ELSE pc' = "PassCheck" /\ UNCHANGED <<outcome, e>>
    /\ UNCHANGED <<cfg, cfg0, fs, fs0, activeNet, isTestnet, save, dial,
                   lookup, oniondial, tls, confWrites, run>>

\* lines 275-282
PassCheck ==
    /\ pc = "PassCheck"
    /\ IF SamePassword(cfg)
       THEN Exit("exit1")
       ELSE pc' = "UserAgent" /\ UNCHANGED <<outcome, e>>
    /\ UNCHANGED <<cfg, cfg0, fs, fs0, activeNet, isTestnet, save, dial,
                   lookup, oniondial, tls, confWrites, run>>

\* lines 284-294
UserAgent ==
    /\ pc = "UserAgent"
    /\ IF \E i \in 1..Len(cfg.UserAgentComments) :
            ContainsAny(cfg.UserAgentComments[i], {"/", ":", "(", ")"})
       THEN Exit("exit1")
       ELSE pc' = "MinRelayFee" /\ UNCHANGED <<outcome, e>>
    /\ UNCHANGED <<cfg, cfg0, fs, fs0, activeNet, isTestnet, save, dial,
                   lookup, oniondial, tls, confWrites, run>>

\* lines 296-304: amt.NewAmount refuses a fee that is not a number; the
\* process then ends with os.Exit(0)
MinRelayFee ==
    /\ pc = "MinRelayFee"
    /\ IF cfg.MinRelayTxFee = "NaN"
       THEN pc' = "done" /\ outcome' = "exit0" /\ e' = "invalid minrelaytxfee"
       ELSE pc' = "AutoListen" /\ e' = "nil" /\ UNCHANGED outcome
    /\ UNCHANGED <<cfg, cfg0, fs, fs0, activeNet, isTestnet, save, dial,
                   lookup, oniondial, tls, confWrites, run>>

----------------------------------------------------------------------------
(* GetNew, lines 305-356, and GetFreePort: the port allocator.             *)

\* s.ActiveNet.DefaultPort
DefaultPort(net) ==
    CASE net = "mainnet" -> <<"1", "1", "0", "4", "7">>
      [] net = "testnet" -> <<"2", "1", "0", "4", "7">>
      [] net = "regtest" -> <<"3", "1", "0", "4", "7">>
      [] net = "simnet"  -> <<"4", "1", "0", "4", "7">>

\* the orders in which a range over the address map can yield the hosts
Orders(hosts) ==
    { q \in [1..Cardinality(hosts) -> hosts] :
        \A i, j \in 1..Cardinality(hosts) : i # j => q[i] # q[j] }

\* A list option of the configuration holds a value: V() yields the stored
\* list and Set(l) stores l, and a list changed after V() or Set(l) leaves
\* the option as it was.  Set is taken to succeed.
ListValue(l)  == l
ListStored(l) == l

\* lines 310-313 with only the first host the range yields
P2PAddresses_FirstOnly(q, net) ==
    [i \in 1..1 |-> JoinHostPort(q[i], DefaultPort(net))]

\* p2pAddresses of lines 310-313, the range yielding the hosts in the order q
P2PAddresses(q, net) ==
    [i \in 1..Len(q) |-> JoinHostPort(q[i], DefaultPort(net))]

\* lines 307-321
AutoListen ==
    /\ pc = "AutoListen"
    /\ IF cfg.AutoListen
       THEN \E q \in Orders(RoutableHosts) :
              LET p2pAddresses == P2PAddresses(q, activeNet)
              IN  /\ cfg' = [cfg EXCEPT !.P2PConnect = ListStored(p2pAddresses),
                                        !.P2PListeners = ListStored(p2pAddresses)]
                  /\ save' = TRUE
       ELSE UNCHANGED <<cfg, save>>
    /\ pc' = "AutoPorts"
    /\ UNCHANGED <<outcome, e, cfg0, fs, fs0, activeNet, isTestnet, dial,
                   lookup, oniondial, tls, confWrites, run>>

\* GetFreePort: a port the kernel hands out, or 0 with an error
GetFreePort == FreePorts \cup {0}

\* lines 335-342 joining the whole entry, not its host, with the port
Reported_WholeEntry(list, ports) ==
    [i \in 1..Len(list) |-> JoinHostPort(list[i], Sprint(ports[i]))]

\* The loop of lines 332-344 over the entries of one list: the list with the
\* port of each entry replaced by ports[i].
Reported(list, ports) ==
    [i \in 1..Len(list) |->
        JoinHostPort(SplitHostPort(list[i]).host, Sprint(ports[i]))]

\* lines 326-356
AutoPorts ==
    /\ pc = "AutoPorts"
    /\ IF cfg.AutoPorts
       THEN LET all == ListValue(cfg.P2PListeners) \o ListValue(cfg.RPCListeners)
                           \o ListValue(cfg.WalletRPCListeners)
                n1  == Len(cfg.P2PListeners)
                n2  == Len(cfg.RPCListeners)
            IN  \E ports \in [1..Len(all) -> GetFreePort] :
                  LET bad == {i \in 1..Len(all) :
                                ~SplitHostPort(all[i]).ok \/ ports[i] = 0}
                      new == Reported(all, ports)
                  IN  IF bad # {}
                      THEN /\ Return(IF SplitHostPort(all[Min(bad)]).ok
                                     THEN "GetFreePort" ELSE "SplitHostPort")
                           /\ UNCHANGED <<cfg, save>>
                      ELSE /\ cfg' = [cfg EXCEPT
                                 !.P2PListeners = ListStored(SubSeq(new, 1, n1)),
                                 !.RPCListeners = ListStored(SubSeq(new, n1 + 1, n1 + n2)),
                                 !.WalletRPCListeners =
                                     ListStored(SubSeq(new, n1 + n2 + 1, Len(all)))]
                           /\ save' = TRUE
                           /\ pc' = "DNSSeed"
                           /\ UNCHANGED <<outcome, e>>
       ELSE pc' = "DNSSeed" /\ UNCHANGED <<outcome, e, cfg, save>>
    /\ UNCHANGED <<cfg0, fs, fs0, activeNet, isTestnet, dial, lookup, oniondial,
                   tls, confWrites, run>>

----------------------------------------------------------------------------
(* GetNew, lines 357-377: the late checks.                                 *)

\* lines 358-361
DNSSeed ==
    /\ pc = "DNSSeed"
    /\ cfg' = IF cfg.LAN \/ cfg.Solo THEN [cfg EXCEPT !.DisableDNSSeed = TRUE] ELSE cfg
    /\ pc' = "RPCLogin"
    /\ UNCHANGED <<outcome, e, cfg0, fs, fs0, activeNet, isTestnet, save, dial,
                   lookup, oniondial, tls, confWrites, run>>

\* lines 363-368
RPCLogin ==
    /\ pc = "RPCLogin"
    /\ cfg' = IF (cfg.Username = "" \/ cfg.Password = "")
                 /\ (cfg.LimitUser = "" \/ cfg.LimitPass = "")
              THEN [cfg EXCEPT !.DisableRPC = TRUE]
              ELSE cfg
    /\ pc' = "RPCMaxReqs"
    /\ UNCHANGED <<outcome, e, cfg0, fs, fs0, activeNet, isTestnet, save, dial,
                   lookup, oniondial, tls, confWrites, run>>

\* lines 369-377
RPCMaxReqs ==
    /\ pc = "RPCMaxReqs"
    /\ IF cfg.RPCMaxConcurrentReqs < 0
       THEN Return("rpcmaxwebsocketconcurrentrequests may not be less than 0")
       ELSE pc' = "DialLookup" /\ UNCHANGED <<outcome, e>>
    /\ UNCHANGED <<cfg, cfg0, fs, fs0, activeNet, isTestnet, save, dial,
                   lookup, oniondial, tls, confWrites, run>>

----------------------------------------------------------------------------
(* GetNew, lines 378-497: the transport composer.                          *)

\* lines 385-386
DialLookup ==
    /\ pc = "DialLookup"
    /\ dial' = NetDialTimeout
    /\ lookup' = NetLookupIP
    /\ pc' = "Proxy"
    /\ UNCHANGED <<outcome, e, cfg, cfg0, fs, fs0, activeNet, isTestnet, save,
                   oniondial, tls, confWrites, run>>

\* the condition of lines 404-406
IsolationWithoutTransport(c) ==
    c.TorIsolation /\ c.ProxyAddress = Empty /\ c.OnionProxyAddress = Empty

\* lines 412-415 clearing the proxy credentials as well
ClearOnionProxy_AndProxy(c) ==
    IF ~c.OnionEnabled
    THEN [c EXCEPT !.OnionProxyAddress = Empty, !.ProxyUser = "", !.ProxyPass = ""]
    ELSE c

\* lines 412-415: s.Config.OnionProxyAddress.Set("") when onion is disabled
ClearOnionProxy(c) ==
    IF ~c.OnionEnabled THEN [c EXCEPT !.OnionProxyAddress = Empty] ELSE c

\* lines 419-427 taking the configured flag as it is
ProxyTorIsolation_Plain(c) == c.TorIsolation

\* torIsolation of lines 419-427
ProxyTorIsolation(c) ==
    /\ c.TorIsolation
    /\ c.OnionProxyAddress = Empty
    /\ c.ProxyUser # "" \/ c.ProxyPass # ""

\* the condition of lines 437-438
ProxyIsTor(c) == c.OnionEnabled /\ c.OnionProxyAddress = Empty

\* lines 387-443
Proxy ==
    /\ pc = "Proxy"
    /\ IF cfg.ProxyAddress # Empty
       THEN IF ~SplitHostPort(cfg.ProxyAddress).ok
            THEN /\ Return("proxy address is invalid")
                 /\ UNCHANGED <<cfg, dial, lookup>>
            ELSE IF IsolationWithoutTransport(cfg)
            THEN /\ Return("Tor stream isolation requires either proxy or onionproxy to be set")
                 /\ UNCHANGED <<cfg, dial, lookup>>
            ELSE LET c == ClearOnionProxy(cfg) IN
                 /\ cfg' = c
                 /\ dial' = ProxyDialTimeout(c, ProxyTorIsolation(c))
                 /\ lookup' = IF ProxyIsTor(c) THEN TorLookupViaProxy ELSE lookup
                 /\ e' = "nil"
                 /\ pc' = "OnionProxy"
                 /\ UNCHANGED outcome
       ELSE /\ pc' = "OnionProxy"
            /\ UNCHANGED <<outcome, e, cfg, dial, lookup>>
    /\ UNCHANGED <<cfg0, fs, fs0, activeNet, isTestnet, save, oniondial, tls,
                   confWrites, run>>

\* lines 450-466: an onion proxy address that does not parse leaves its
\* error in e and the run goes on
OnionProxy ==
    /\ pc = "OnionProxy"
    /\ e' = IF cfg.OnionProxyAddress = Empty THEN e
            ELSE IF SplitHostPort(cfg.OnionProxyAddress).ok THEN "nil"
            ELSE "onion proxy address is invalid"
    /\ pc' = "OnionDial"
    /\ UNCHANGED <<outcome, cfg, cfg0, fs, fs0, activeNet, isTestnet, save,
                   dial, lookup, oniondial, tls, confWrites, run>>

\* lines 467-477
OnionDial ==
    /\ pc = "OnionDial"
    /\ oniondial' = OnionProxyDial
    /\ pc' = "ProxyLookup"
    /\ UNCHANGED <<outcome, e, cfg, cfg0, fs, fs0, activeNet, isTestnet, save,
                   dial, lookup, tls, confWrites, run>>

\* line 483 testing the onion proxy address instead
RebindsLookup_OnOnionProxy(c) == c.OnionProxyAddress # Empty

\* the condition of line 483
RebindsLookup(c) == c.ProxyAddress # Empty

\* lines 484-486 resolving through the proxy address
ReboundLookup_ViaProxy == TorLookupViaProxy

\* the lookup function of lines 484-486
ReboundLookup == TorLookupViaOnion

\* lines 479-489
ProxyLookup ==
    /\ pc = "ProxyLookup"
    /\ IF RebindsLookup(cfg)
       THEN lookup' = ReboundLookup /\ UNCHANGED oniondial
       ELSE oniondial' = dial /\ UNCHANGED lookup
    /\ pc' = "NoOnion"
    /\ UNCHANGED <<outcome, e, cfg, cfg0, fs, fs0, activeNet, isTestnet, save,
                   dial, tls, confWrites, run>>

\* line 491 sparing a configured onion proxy
OnionOff_UnlessOnionProxy(c) == ~c.OnionEnabled /\ c.OnionProxyAddress = Empty

\* the condition of line 491
OnionOff(c) == ~c.OnionEnabled

\* lines 490-497
NoOnion ==
    /\ pc = "NoOnion"
    /\ oniondial' = IF OnionOff(cfg) THEN TorDisabledDial ELSE oniondial
    /\ pc' = "Persist"
    /\ UNCHANGED <<outcome, e, cfg, cfg0, fs, fs0, activeNet, isTestnet, save,
                   dial, lookup, tls, confWrites, run>>

----------------------------------------------------------------------------
(* GetNew, lines 498-513: persisting the configuration, and the return.    *)

\* line 498 without the test of the configuration file
ShouldPersist_OnlySave(sv, d) == sv

\* the condition of line 498
ShouldPersist(sv, d) == sv \/ ~FileExists(d, "conf")

\* the condition of line 500
SkipsWrite(c) == c.RunningCommand = "kopach"

\* lines 498-507: the error of WriteToFile is a new variable e of the block
\* and is dropped
Persist ==
    /\ pc = "Persist"
    /\ IF ShouldPersist(save, fs)
       THEN /\ save' = FALSE
            /\ IF SkipsWrite(cfg)
               THEN /\ pc' = "done" /\ outcome' = "returned"
                    /\ UNCHANGED <<fs, confWrites>>
               ELSE \E how \in WriteOutcomes :
                    /\ fs' = WriteFile(fs, "conf", run, how)
                    /\ confWrites' = confWrites + 1
                    /\ pc' = "Finish"
                    /\ UNCHANGED outcome
       ELSE /\ pc' = "Finish"
            /\ UNCHANGED <<outcome, save, fs, confWrites>>
    /\ UNCHANGED <<e, cfg, cfg0, fs0, activeNet, isTestnet, dial, lookup,
                   oniondial, tls, run>>

\* lines 508-512
Finish ==
    /\ pc = "Finish"
    /\ isTestnet' = (isTestnet \/ activeNet = "testnet")
    /\ pc' = "done"
    /\ outcome' = "returned"
    /\ UNCHANGED <<e, cfg, cfg0, fs, fs0, activeNet, save, dial, lookup,
                   oniondial, tls, confWrites, run>>

\* main.go lines 25-54: the process ends after a failed GetNew (and, in the
\* end, after a successful one); the node is then started again with the
\* same configuration on the disk the last run left.
Restart ==
    /\ pc = "done"
    /\ run < MaxRuns
    /\ pc' = "Initialize" /\ outcome' = "running" /\ e' = "nil"
    /\ cfg' = cfg0 /\ cfg0' = cfg0
    /\ fs' = fs /\ fs0' = fs
    /\ activeNet' = "" /\ isTestnet' = FALSE /\ save' = FALSE
    /\ dial' = NoFn /\ lookup' = NoFn /\ oniondial' = NoFn
    /\ tls' = NoTLSWork /\ confWrites' = 0 /\ run' = run + 1

Next ==
    \/ Initialize \/ SelectNetwork \/ LanSolo \/ LogDir
    \/ TLSCheck \/ TLSMkdir \/ TLSGenerate
    \/ TLSWriteCert \/ TLSWriteCA \/ TLSWriteKey
    \/ Profile \/ PeerLists \/ DisableListen \/ RelayPolicy
    \/ UserCheck \/ PassCheck \/ UserAgent \/ MinRelayFee
    \/ AutoListen \/ AutoPorts
    \/ DNSSeed \/ RPCLogin \/ RPCMaxReqs
    \/ DialLookup \/ Proxy \/ OnionProxy \/ OnionDial \/ ProxyLookup \/ NoOnion
    \/ Persist \/ Finish
    \/ Restart

Spec == Init /\ [][Next]_vars

----------------------------------------------------------------------------
(* What the claims speak of.                                               *)

\* TLS is required by the client or the server role
TLSRequired(c) == c.ClientTLS \/ c.ServerTLS

\* the run is past line 497: dial, lookup and oniondial are final
TransportComposed == oniondial # NoFn /\ pc \in {"Persist", "Finish", "done"}

\* GetNew returned from line 501 or line 512
Completed == pc = "done" /\ outcome = "returned" /\ oniondial # NoFn

\* GetNew returned from line 501 or line 512 with a nil error
CompletedWithoutError == Completed /\ e = "nil"

\* the proxy address of the run parses as host:port
ValidProxy(c) == c.ProxyAddress # Empty /\ SplitHostPort(c.ProxyAddress).ok

----------------------------------------------------------------------------
(* The TLS provisioner: C1, C2, C3.                                        *)

\* C1: when the provisioner fails after the cert file was written and before
\* the key file is written (the write of the CA file or of the key file
\* fails), neither the cert file nor the CA file is on disk when GetNew
\* returns.  Stated for the runs in which every os.Remove that GetNew called
\* on an existing file worked.
C1_RollbackLeavesNoCertNoCA ==
    (pc = "done" /\ tls.failedAt \in {"ca", "key"} /\ ~tls.rmFailed)
        => ~FileExists(fs, "cert") /\ ~FileExists(fs, "ca")

\* C2, as claimed: when TLS is required and GetNew completes without error,
\* the cert file, the key file and the CA file all exist.
C2_AllThreeFilesExist ==
    (CompletedWithoutError /\ TLSRequired(cfg0))
        => \A f \in TLSFiles : FileExists(fs, f)

\* C2, amended: when TLS is required and GetNew completes without error, the
\* cert file and the CA file exist, and the key file exists unless
\* OneTimeTLSKey is set and the run found the cert and the CA file but no
\* key file.
C2_TLSMaterial ==
    (CompletedWithoutError /\ TLSRequired(cfg0))
        => /\ FileExists(fs, "cert")
           /\ FileExists(fs, "ca")
           /\ \/ FileExists(fs, "key")
              \/ /\ cfg0.OneTimeTLSKey
                 /\ ~FileExists(fs0, "key")
                 /\ FileExists(fs0, "cert")
                 /\ FileExists(fs0, "ca")

\* a one-time-key run that provisioned all three files and completed
C2_Witness ==
    /\ CompletedWithoutError /\ TLSRequired(cfg0) /\ cfg0.OneTimeTLSKey
    /\ tls.wrote = TLSFiles
    /\ \E f \in TLSFiles : ~FileExists(fs0, f)

\* C3: a run that finds the cert, key and CA files all on disk makes no
\* directory, generates no key pair and writes or removes no TLS file: at
\* every point of the run the three files are what the run found (so a
\* second run leaves what the first run left).
C3_ProvisionerIsNoOp ==
    (\A f \in TLSFiles : FileExists(fs0, f))
        => /\ tls = NoTLSWork
           /\ \A f \in TLSFiles : fs[f] = fs0[f]

\* a second run, TLS required, completing on the three files the first run wrote
C3_Witness ==
    /\ run = 2 /\ Completed /\ TLSRequired(cfg0)
    /\ \A f \in TLSFiles : fs0[f] = Full(1) /\ fs[f] = Full(1)

----------------------------------------------------------------------------
(* The transport composer: C4 to C10.                                      *)

\* C4: with a valid proxy address, no onion proxy address and onion routing
\* enabled, the lookup function GetNew leaves resolves through SOCKS at the
\* proxy address.
C4_LookupThroughProxy ==
    (Completed /\ ValidProxy(cfg0) /\ cfg0.OnionProxyAddress = Empty
               /\ cfg0.OnionEnabled)
        => ProxyUsedBy(lookup, cfg) = <<"socks", cfg0.ProxyAddress>>

\* C5: with a valid proxy address, no onion proxy address and onion routing
\* enabled, the onion dial function GetNew leaves is the dial function.
C5_OnionDialIsDial ==
    (Completed /\ ValidProxy(cfg0) /\ cfg0.OnionProxyAddress = Empty
               /\ cfg0.OnionEnabled)
        => oniondial = dial

\* C6: bridge mode.  With a valid proxy address, a non-empty onion proxy
\* address different from it and onion routing enabled, after GetNew dial is
\* the SOCKS wrapper over the proxy address, lookup resolves through the
\* onion proxy address, and oniondial is a SOCKS wrapper over the onion proxy
\* address that is not dial.
C6_BridgeMode ==
    (Completed /\ ValidProxy(cfg0) /\ cfg0.OnionEnabled
               /\ cfg0.OnionProxyAddress \notin {Empty, cfg0.ProxyAddress})
        => /\ dial.fn = "proxy.DialTimeout"
           /\ ProxyUsedBy(dial, cfg) = <<"socks", cfg0.ProxyAddress>>
           /\ ProxyUsedBy(lookup, cfg) = <<"socks", cfg0.OnionProxyAddress>>
           /\ oniondial.fn = "onionproxy.DialTimeout"
           /\ ProxyUsedBy(oniondial, cfg) = <<"socks", cfg0.OnionProxyAddress>>
           /\ oniondial # dial

\* the scenario of the specification: a proxy and a distinct Tor proxy
C6_Witness ==
    /\ CompletedWithoutError /\ cfg0.OnionEnabled
    /\ cfg0.ProxyAddress = ProxyA /\ cfg0.OnionProxyAddress = OnionA

\* C7: when onion routing is disabled and the run is past the transport
\* composition, oniondial is the function that fails with "tor has been
\* disabled", whatever the proxy address, the onion proxy address and the
\* Tor isolation flag are.
C7_OnionDisabledWins ==
    (TransportComposed /\ ~cfg0.OnionEnabled) => oniondial = TorDisabledDial

\* onion routing disabled without a proxy: the alias of line 488 came first
C7_Witness ==
    /\ Completed /\ ~cfg0.OnionEnabled
    /\ cfg0.ProxyAddress = Empty /\ cfg0.OnionProxyAddress = OnionA
    /\ cfg0.TorIsolation

\* C8: with a proxy configured and onion routing disabled, after GetNew the
\* lookup function is the system resolver and dial is the proxy dial function.
C8_NoOnionLookupIsSystem ==
    (Completed /\ ValidProxy(cfg0) /\ ~cfg0.OnionEnabled)
        => /\ lookup = NetLookupIP
           /\ dial.fn = "proxy.DialTimeout"

\* C9: with Tor isolation requested and neither a proxy nor an onion proxy
\* address, GetNew aborts: no run gets to the end of the transport
\* composition.
C9_IsolationNeedsTransport ==
    (cfg0.TorIsolation /\ cfg0.ProxyAddress = Empty
                       /\ cfg0.OnionProxyAddress = Empty)
        => ~TransportComposed

----------------------------------------------------------------------------
(* The early checks and the network: C11, C12, C13.                        *)

\* the admin and limited credentials of c collide (lines 269-270, 277-278)
CredentialsCollide(c) ==
    \/ c.Username # "" /\ c.Username = c.LimitUser
    \/ c.Password # "" /\ c.Password = c.LimitPass

\* the run has touched nothing of what comes after the credential checks
NothingLaterDone ==
    /\ cfg.P2PListeners = cfg0.P2PListeners
    /\ cfg.P2PConnect = cfg0.P2PConnect
    /\ cfg.RPCListeners = cfg0.RPCListeners
    /\ cfg.WalletRPCListeners = cfg0.WalletRPCListeners
    /\ dial = NoFn /\ lookup = NoFn /\ oniondial = NoFn
    /\ confWrites = 0 /\ fs["conf"] = fs0["conf"]

\* the errors GetNew returns before line 267
ErrorsBeforeCredentialChecks ==
    { "neither Solo or LAN can be active on mainnet", "mkdir", "nopair", "badpair",
      "write cert", "write ca", "write key",
      "the profile port must be between 1024 and 65535",
      "the addpeers and connectpeers options can not be both set",
      "rejectnonstd and relaynonstd cannot be used together" }

\* C11, as claimed: when the admin user name is non-empty and equals the
\* limited one, or the admin password is non-empty and equals the limited
\* one, the run ends by terminating the process, not by returning an error,
\* and it rewrites no listener list, assigns no transport function and
\* writes no configuration file.
C11_CollisionAlwaysExits ==
    (CredentialsCollide(cfg0) /\ outcome # "panic")
        => /\ NothingLaterDone
           /\ pc = "done" => outcome = "exit1"

\* C11, amended: with colliding credentials the run rewrites no listener
\* list, assigns no transport function and writes no configuration file, and
\* it ends by os.Exit(1) unless a step before line 267 has ended it: a panic
\* of config.Initialize or an error returned by the LAN/Solo guard, the TLS
\* provisioner, the profile port, peer list or relay policy check.
C11_CollisionIsFatal ==
    CredentialsCollide(cfg0)
        => /\ NothingLaterDone
           /\ pc = "done" =>
                \/ outcome = "exit1"
                \/ outcome = "panic"
                \/ outcome = "returned" /\ e \in ErrorsBeforeCredentialChecks

\* equal passwords alone end the process at line 281
C11_Witness ==
    /\ pc = "done" /\ outcome = "exit1"
    /\ cfg0.Password = cfg0.LimitPass /\ cfg0.Username # cfg0.LimitUser
    /\ cfg0.AutoPorts /\ cfg0.ProxyAddress = ProxyA

\* C12: a run with LAN or Solo set and a network token that selects mainnet
\* (the empty and the unknown tokens too) returns the LAN/Solo error and does
\* nothing of the TLS provisioner or of any later step; a run whose token
\* selects testnet never has the LAN/Solo error.  Runs in which
\* config.Initialize panicked have no configuration and are left out.
C12_LanSoloGuard ==
    /\ ((cfg0.LAN \/ cfg0.Solo)
          /\ cfg0.Network \notin {"testnet", "testnet3", "t", "regtestnet",
                                  "regressiontest", "r", "simnet", "s"})
         => /\ pc \in {"Initialize", "SelectNetwork", "LanSolo", "done"}
            /\ tls = NoTLSWork /\ fs = fs0 /\ cfg = cfg0
            /\ dial = NoFn /\ lookup = NoFn /\ oniondial = NoFn
            /\ (pc = "done" /\ outcome # "panic")
                 => /\ outcome = "returned"
                    /\ e = "neither Solo or LAN can be active on mainnet"
    /\ cfg0.Network \in {"testnet", "testnet3", "t"}
         => e # "neither Solo or LAN can be active on mainnet"

\* LAN on mainnet with TLS asked for and no TLS file on disk: the guard
\* returned its error
C12_Witness ==
    /\ pc = "done" /\ outcome = "returned"
    /\ e = "neither Solo or LAN can be active on mainnet"
    /\ cfg0.LAN /\ cfg0.ClientTLS /\ cfg0.Network = "mainnet"
    /\ \A f \in TLSFiles : ~FileExists(fs, f)

\* C13: once the network is selected, the tokens testnet, testnet3 and t
\* have selected the test parameters, regtestnet, regressiontest and r the
\* regression test parameters, simnet and s the simulation parameters and
\* every other token the main parameters; the selection leaves no error; and
\* fork.IsTestnet is set whenever the test parameters are selected.
C13_NetworkSelection ==
    activeNet # ""
        => /\ cfg0.Network \in {"testnet", "testnet3", "t"} <=> activeNet = "testnet"
           /\ cfg0.Network \in {"regtestnet", "regressiontest", "r"}
                <=> activeNet = "regtest"
           /\ cfg0.Network \in {"simnet", "s"} <=> activeNet = "simnet"
           /\ cfg0.Network \notin {"testnet", "testnet3", "t", "regtestnet",
                                   "regressiontest", "r", "simnet", "s"}
                <=> activeNet = "mainnet"
           /\ pc = "LanSolo" => outcome = "running" /\ e = "nil"
           /\ activeNet = "testnet" => isTestnet

\* the one-letter token of the test network went through a whole run
C13_Witness ==
    /\ Completed /\ cfg0.Network = "t" /\ activeNet = "testnet" /\ isTestnet

----------------------------------------------------------------------------
(* The port allocator and the persistence decision: C14, C15, C18.         *)

\* the decimal strings of the ports GetFreePort can report
FreePortStrings == {Sprint(p) : p \in FreePorts}

\* list new is list old with the port of every entry replaced by a port the
\* kernel handed out: same length, same order, same hosts
PortsReplaced(old, new) ==
    /\ Len(new) = Len(old)
    /\ \A i \in 1..Len(old) :
         /\ SplitHostPort(new[i]).ok
         /\ SplitHostPort(new[i]).host = SplitHostPort(old[i]).host
         /\ SplitHostPort(new[i]).port \in FreePortStrings

C15_PersistenceDecision ==
    Completed
        => /\ confWrites \in {0, 1}
           /\ confWrites = 1
                <=> /\ \/ cfg0.AutoListen
                       \/ cfg0.AutoPorts
                       \/ ~FileExists(fs0, "conf")
                    /\ cfg0.RunningCommand # "kopach"
           /\ confWrites = 0 => fs["conf"] = fs0["conf"]

\* the node wrote over an existing configuration file because auto-listen ran
C15_Witness ==
    /\ Completed /\ confWrites = 1 /\ fs["conf"] = Full(run)
    /\ FileExists(fs0, "conf") /\ cfg0.AutoListen /\ ~cfg0.AutoPorts

\* the stages after a successful auto-ports step
AfterAutoPorts ==
    \/ pc \in {"DNSSeed", "RPCLogin", "RPCMaxReqs", "DialLookup", "Proxy",
               "OnionProxy", "OnionDial", "ProxyLookup", "NoOnion", "Persist",
               "Finish"}
    \/ Completed

\* list l has one entry per routable host, each at the default P2P port of
\* the active network
OnePerRoutableHost(l) ==
    /\ Len(l) = Cardinality(RoutableHosts)
    /\ {SplitHostPort(l[i]).host : i \in 1..Len(l)} = RoutableHosts
    /\ \A i \in 1..Len(l) :
         SplitHostPort(l[i]).ok /\ SplitHostPort(l[i]).port = DefaultPort(activeNet)

----------------------------------------------------------------------------
(* The transport composer and the frame of the run: C16, C17, C19, C20.    *)

\* C16, as claimed: with a valid proxy address, dial is the SOCKS wrapper
\* with the proxy address, the proxy credentials and an isolation flag equal
\* to the configured Tor isolation flag.
C16_DialCarriesIsolationFlag ==
    (Completed /\ ValidProxy(cfg0))
        => /\ dial.fn = "proxy.DialTimeout"
           /\ dial.addr = cfg0.ProxyAddress
           /\ dial.user = cfg0.ProxyUser /\ dial.pass = cfg0.ProxyPass
           /\ dial.iso = cfg0.TorIsolation

\* C16, amended: with a valid proxy address, dial is the SOCKS wrapper with
\* the proxy address and the proxy credentials; its isolation flag is set
\* exactly when Tor isolation is configured, a proxy user or password is
\* given, and no onion proxy address is in force (none configured, or onion
\* routing disabled).
C16_DialWrapper ==
    (Completed /\ ValidProxy(cfg0))
        => /\ dial.fn = "proxy.DialTimeout"
           /\ dial.addr = cfg0.ProxyAddress
           /\ dial.user = cfg0.ProxyUser /\ dial.pass = cfg0.ProxyPass
           /\ dial.iso <=> /\ cfg0.TorIsolation
                           /\ cfg0.ProxyUser # "" \/ cfg0.ProxyPass # ""
                           /\ cfg0.OnionProxyAddress = Empty \/ ~cfg0.OnionEnabled

\* Tor isolation with proxy credentials and an onion proxy that onion
\* disabled took out of force: the flag is set
C16_Witness ==
    /\ Completed /\ ValidProxy(cfg0) /\ cfg0.TorIsolation /\ dial.iso
    /\ cfg0.ProxyUser # "" /\ cfg0.OnionProxyAddress = OnionA
    /\ ~cfg0.OnionEnabled

\* the onion proxy address of c is there and does not parse as host:port
MalformedOnionProxy(c) ==
    c.OnionProxyAddress # Empty /\ ~SplitHostPort(c.OnionProxyAddress).ok

\* C17: a run with a malformed onion proxy address that gets to the parse of
\* line 452 goes on to the end of GetNew and returns without an error.
C17_MalformedOnionProxyOnlyLogged ==
    (Completed /\ MalformedOnionProxy(cfg))
        => e = "nil"

\* the fields of the configuration the claim lets the pipeline write
WritableFields ==
    {"P2PListeners", "P2PConnect", "RPCListeners", "WalletRPCListeners",
     "DisableListen", "DisableDNSSeed", "DisableRPC"}

\* C19, as claimed: at every point of a run, every field of the
\* configuration but the listener and connect lists and the flags
\* DisableListen, DisableDNSSeed and DisableRPC is as it was at entry.
C19_OnlyListsAndFlagsWritten ==
    \A f \in (DOMAIN cfg) \ WritableFields : cfg[f] = cfg0[f]

\* C19, amended: at every point of a run, every field of the configuration
\* is as it was at entry, but for the listener and connect lists, the flags
\* DisableListen, DisableDNSSeed and DisableRPC, the log directory (moved
\* under the network's name when it was the data directory) and the onion
\* proxy address (emptied when a valid proxy address is configured and onion
\* routing is disabled).
C19_Frame ==
    /\ \A f \in (DOMAIN cfg) \ (WritableFields \cup {"LogDir", "OnionProxyAddress"}) :
         cfg[f] = cfg0[f]
    /\ cfg.LogDir # cfg0.LogDir => cfg0.LogDir = cfg0.DataDir
    /\ cfg.OnionProxyAddress # cfg0.OnionProxyAddress
         => /\ cfg.OnionProxyAddress = Empty
            /\ ValidProxy(cfg0) /\ ~cfg0.OnionEnabled

\* a run with proxy credentials that has emptied the onion proxy address
C19_Witness ==
    /\ Completed /\ cfg0.OnionProxyAddress = OnionA /\ cfg.OnionProxyAddress = Empty
    /\ cfg0.ProxyUser # "" /\ cfg0.OnionProxyUser # ""

\* C20: a run in which GetNew returns an error has not written the
\* configuration file and has not got to the end of the transport
\* composition.
C20_NoPersistenceOnFailure ==
    (pc = "done" /\ outcome = "returned" /\ e # "nil")
        => /\ confWrites = 0 /\ fs["conf"] = fs0["conf"]
           /\ ~TransportComposed

====
